---- MODULE Spec2Model ----
(***************************************************************************)
(* Verification model of the two ray-query acceleration structures of the  *)
(* repository: the sparse 64-way voxel tree (src/src/tree/s64tree.h) and   *)
(* the SAH bounding volume hierarchy (src/src/bvh.h).                      *)
(*                                                                         *)
(* Arithmetic.  The C code computes in 32-bit floats.  The model computes  *)
(* in fixed point: one unit of length (and of the ray parameter t) is the  *)
(* 1e-4 epsilon both headers use, and every input is drawn from a lattice  *)
(* on which each product, sum and quotient of the code is exact.  The      *)
(* 1e30f sentinel is the saturating value Huge.  Bit masks (uint64_t) are  *)
(* sets of bit indices 0..63.  C arrays are sequences; the C index i is    *)
(* the sequence index i + 1.                                               *)
(***************************************************************************)
EXTENDS Integers, Sequences, FiniteSets, TLC

\* ------------------------------------------------------------------ bounds
MaxK == 2          \* grids of dimension 4^1 .. 4^MaxK
MaxOcc == 2        \* at most MaxOcc occupied voxels per grid
MaxByte == 2       \* voxel payload bytes 1..MaxByte
HalfVoxel == 5000  \* half the world size of one voxel, in units of 1e-4

\* --------------------------------------------------------------- constants
Huge == 1000000000 \* the 1e30f sentinel (saturating)
MARCH_EPS == 1     \* 1e-4f, in units of 1e-4
ITER_CAP == 512

\* ------------------------------------------------------------ vector math
vec3(x, y, z) == <<x, y, z>>
add(a, b) == <<a[1] + b[1], a[2] + b[2], a[3] + b[3]>>
sub(a, b) == <<a[1] - b[1], a[2] - b[2], a[3] - b[3]>>
mul(a, s) == <<a[1] * s, a[2] * s, a[3] * s>>
dot(a, b) == a[1] * b[1] + a[2] * b[2] + a[3] * b[3]
cross(a, b) == <<a[2] * b[3] - a[3] * b[2], a[3] * b[1] - a[1] * b[3], a[1] * b[2] - a[2] * b[1]>>

Min2(a, b) == IF a < b THEN a ELSE b
Max2(a, b) == IF a > b THEN a ELSE b
clamp(v, lo, hi) == IF v < lo THEN lo ELSE IF hi < v THEN hi ELSE v
Sign(a) == IF a > 0 THEN 1 ELSE IF a < 0 THEN -1 ELSE 0

\* a / b for b # 0; exact on the input lattice
FDiv(a, b) == IF b > 0 THEN a \div b ELSE (0 - a) \div (0 - b)

\* a * inv where inv is a reciprocal direction component: +-1, or Huge
MulInv(a, inv) == IF inv = Huge THEN Sign(a) * Huge ELSE a * inv

Pow4(k) == IF k = 1 THEN 4 ELSE IF k = 2 THEN 16 ELSE IF k = 3 THEN 64 ELSE 256

\* C array access
At(s, i) == s[i + 1]

\* ------------------------------------------------------------- the grid
\* voxels is the byte array of s64tree_build, kept sparse: a function from
\* the indices of the non-zero bytes to their values.
VoxAt(voxels, N, x, y, z) ==
    LET i == (z * N + y) * N + x IN IF i \in DOMAIN voxels THEN voxels[i] ELSE 0

\* bit index of a sub-cell (lines 82, 119, 222, 252)
s64_bit_index_yz(x, y, z) == x + y * 4 + z * 16

s64_bit_index(x, y, z) == x + z * 4 + y * 16

s64_popcnt64_plus(v) == Cardinality(v) + 1

s64_popcnt64(v) == Cardinality(v)

s64_popcnt64_before(mask, idx) ==
    IF idx = 0 THEN 0 ELSE s64_popcnt64(mask \cap (0 .. (idx - 1)))

s64_block_any(voxels, N, x0, y0, z0, size) ==
    \E i \in DOMAIN voxels :
        LET x == i % N
            y == (i \div N) % N
            z == i \div (N * N)
        IN  /\ x0 <= x /\ x < x0 + size
            /\ y0 <= y /\ y < y0 + size
            /\ z0 <= z /\ z < z0 + size

BitX(i) == i % 4
BitZ(i) == (i \div 4) % 4
BitY(i) == (i \div 16) % 4

\* the n-th set bit of mask in decreasing bit order
NthBitDown(mask, n) == CHOOSE b \in mask : Cardinality({a \in mask : a > b}) = n

\* the n-th set bit of mask in increasing bit order, n = 0, 1, ..
NthBit(mask, n) == CHOOSE b \in mask : Cardinality({a \in mask : a < b}) = n

\* the bytes pushed by the loop of lines 86-93: one per set bit, in
\* increasing bit order
s64_pack(voxels, N, x0, y0, z0, mask) ==
    [j \in 1 .. Cardinality(mask) |->
        LET i == NthBit(mask, j - 1)
        IN  VoxAt(voxels, N, x0 + BitX(i), y0 + BitY(i), z0 + BitZ(i))]

s64_leaf_mask_and_pack(voxels, N, x0, y0, z0, out) ==
    LET mask == {i \in 0 .. 63 :
                    VoxAt(voxels, N, x0 + BitX(i), y0 + BitY(i), z0 + BitZ(i)) # 0}
    IN  [mask |-> mask, out |-> out \o s64_pack(voxels, N, x0, y0, z0, mask)]

EmptyNode == [is_leaf |-> 0, child_ptr |-> 0, child_mask |-> {}]

\* t is the tree under construction; t.alloc is a ghost: for each node, the
\* first index and the number of the node slots (internal) or payload bytes
\* (leaf) that were allocated for it.
s64_alloc_node(t) ==
    [t EXCEPT !.node_pool = Append(@, EmptyNode), !.alloc = Append(@, [first |-> 0, count |-> 0])]

\* the loop of line 132 run once too often
s64_alloc_nodes_spare(t, count) ==
    [t EXCEPT !.node_pool = @ \o [j \in 1 .. count + 1 |-> EmptyNode],
              !.alloc = @ \o [j \in 1 .. count + 1 |-> [first |-> 0, count |-> 0]]]

RECURSIVE s64_alloc_nodes(_, _)
s64_alloc_nodes(t, count) ==
    IF count = 0 THEN t ELSE s64_alloc_nodes(s64_alloc_node(t), count - 1)

RECURSIVE s64_build_inplace(_, _, _, _, _, _, _, _)
RECURSIVE s64_build_children(_, _, _, _, _, _, _, _, _, _)

\* the loop of lines 139-151 from slot on: the bits of mask are visited in
\* increasing order ci = x + z*4 + y*16 and the unset ones are skipped
s64_build_children(t, first_child, slot, mask, voxels, N, x0, y0, z0, child_size) ==
    IF slot >= Cardinality(mask) THEN t
    ELSE LET ci == NthBit(mask, slot)
             r == s64_build_inplace(t, first_child + slot, voxels, N,
                                    x0 + BitX(ci) * child_size,
                                    y0 + BitY(ci) * child_size,
                                    z0 + BitZ(ci) * child_size, child_size)
         IN  s64_build_children(r.t, first_child, slot + 1, mask, voxels, N, x0, y0, z0, child_size)

s64_build_inplace(t, node_idx, voxels, N, x0, y0, z0, size) ==
    IF size = 4
    THEN LET ptr == Len(t.leaf_data)
             pk == s64_leaf_mask_and_pack(voxels, N, x0, y0, z0, t.leaf_data)
         IN  [t |-> [t EXCEPT !.leaf_data = pk.out,
                              !.node_pool[node_idx + 1] =
                                  [is_leaf |-> 1, child_ptr |-> ptr, child_mask |-> pk.mask],
                              !.alloc[node_idx + 1] = [first |-> ptr, count |-> Len(pk.out) - ptr]],
              ret |-> pk.mask # {}]
    ELSE LET child_size == size \div 4
             mask == {ci \in 0 .. 63 :
                         s64_block_any(voxels, N, x0 + BitX(ci) * child_size,
                                       y0 + BitY(ci) * child_size,
                                       z0 + BitZ(ci) * child_size, child_size)}
         IN  IF mask = {}
             THEN [t |-> [t EXCEPT !.node_pool[node_idx + 1] = EmptyNode], ret |-> FALSE]
             ELSE LET first_child == Len(t.node_pool)
                      child_count == s64_popcnt64(mask)
                      t1 == s64_alloc_nodes(t, child_count)
                      t2 == [t1 EXCEPT !.node_pool[node_idx + 1] =
                                           [is_leaf |-> 0, child_ptr |-> first_child,
                                            child_mask |-> mask],
                                       !.alloc[node_idx + 1] =
                                           [first |-> first_child,
                                            count |-> Len(t1.node_pool) - first_child]]
                  IN  [t |-> s64_build_children(t2, first_child, 0, mask, voxels, N,
                                                x0, y0, z0, child_size),
                       ret |-> TRUE]

\* s64tree_build without the forced root of line 171
s64tree_build_noforce(voxels, grid_size, bounds6) ==
    s64_build_inplace(s64_alloc_node([node_pool |-> <<>>, leaf_data |-> <<>>, alloc |-> <<>>,
                                      grid_size |-> grid_size,
                                      bmin |-> <<bounds6[1], bounds6[2], bounds6[3]>>,
                                      bmax |-> <<bounds6[4], bounds6[5], bounds6[6]>>]),
                      0, voxels, grid_size, 0, 0, 0, grid_size).t

s64tree_build(voxels, grid_size, bounds6) ==
    LET t0 == s64_alloc_node([node_pool |-> <<>>, leaf_data |-> <<>>, alloc |-> <<>>,
                              grid_size |-> grid_size,
                              bmin |-> <<bounds6[1], bounds6[2], bounds6[3]>>,
                              bmax |-> <<bounds6[4], bounds6[5], bounds6[6]>>])
        r == s64_build_inplace(t0, 0, voxels, grid_size, 0, 0, 0, grid_size)
    IN  IF ~r.ret
        THEN [r.t EXCEPT !.node_pool[1] = [is_leaf |-> 1, child_ptr |-> 0, child_mask |-> {}]]
        ELSE r.t


\* ------------------------------------------------------- s64tree_intersect
s64_aabb_hit(o, invd, bmin, bmax) ==
    LET tx0 == MulInv(bmin[1] - o[1], invd[1])
        tx1 == MulInv(bmax[1] - o[1], invd[1])
        ty0 == MulInv(bmin[2] - o[2], invd[2])
        ty1 == MulInv(bmax[2] - o[2], invd[2])
        tz0 == MulInv(bmin[3] - o[3], invd[3])
        tz1 == MulInv(bmax[3] - o[3], invd[3])
        tmin == Max2(Max2(Min2(tx0, tx1), Min2(ty0, ty1)), Min2(tz0, tz1))
        tmax == Min2(Min2(Max2(tx0, tx1), Max2(ty0, ty1)), Max2(tz0, tz1))
    IN  [t0 |-> tmin, t1 |-> tmax, hit |-> tmax >= tmin]

\* the index tests of lines 234 and 256: idx >= size returns false
s64_in_range_le(idx, size) == idx <= size

s64_in_range(idx, size) == idx < size

\* t->node_pool[idx] and t->leaf_data[idx].  No property looks at what a read
\* past the end yields; the reads themselves are recorded (nread, lread).
s64_node(t, idx) ==
    IF idx < Len(t.node_pool) THEN At(t.node_pool, idx)
    ELSE [is_leaf |-> 1, child_ptr |-> 0, child_mask |-> {}]
s64_leaf_byte(t, idx) == IF idx < Len(t.leaf_data) THEN At(t.leaf_data, idx) ELSE 0

\* the descent loop of lines 211-239, entered with the given node and cell;
\* nread is a ghost: the node_pool indices the loop has read
RECURSIVE s64_descend(_, _, _, _, _)
s64_descend(t, node, cell_min, cell_size, pos) ==
    IF node.is_leaf # 0
    THEN [node |-> node, cell_min |-> cell_min, cell_size |-> cell_size,
          missing |-> FALSE, oob |-> FALSE, nread |-> {}]
    ELSE LET child_size == cell_size \div 4
             cx == clamp((pos[1] - cell_min[1]) \div child_size, 0, 3)
             cy == clamp((pos[2] - cell_min[2]) \div child_size, 0, 3)
             cz == clamp((pos[3] - cell_min[3]) \div child_size, 0, 3)
             child_idx == s64_bit_index(cx, cy, cz)
             sub_min == add(cell_min, vec3(cx * child_size, cy * child_size, cz * child_size))
         IN  IF child_idx \notin node.child_mask
             THEN [node |-> node, cell_min |-> sub_min, cell_size |-> child_size,
                   missing |-> TRUE, oob |-> FALSE, nread |-> {}]
             ELSE LET slot == s64_popcnt64_before(node.child_mask, child_idx)
                      node_idx == node.child_ptr + slot
                  IN  IF ~s64_in_range(node_idx, Len(t.node_pool))
                      THEN [node |-> node, cell_min |-> cell_min, cell_size |-> cell_size,
                            missing |-> FALSE, oob |-> TRUE, nread |-> {}]
                      ELSE LET r == s64_descend(t, s64_node(t, node_idx), sub_min, child_size, pos)
                           IN  [r EXCEPT !.nread = @ \cup {node_idx}]

\* lines 267-268 with the cell_size of line 227 left at the node's
s64_march_cell_wide(d) ==
    [cell_min |-> d.cell_min, cell_size |-> IF d.missing THEN 4 * d.cell_size ELSE d.cell_size]

\* the cell whose far face the march steps to (lines 267-268)
s64_march_cell(d) == [cell_min |-> d.cell_min, cell_size |-> d.cell_size]

\* per-axis distance to the far face of the cell (lines 270-272)
s64_axis_dt(dirc, lo, hi, p) ==
    IF dirc > 0 THEN FDiv(hi - p, dirc)
    ELSE IF dirc < 0 THEN FDiv(lo - p, dirc)
    ELSE Huge

\* line 275: a step distance that is not positive is replaced by 1e-4
s64_step_dt_raw(dt0) == dt0

s64_step_dt(dt0) == IF ~(dt0 > 0) THEN MARCH_EPS ELSE dt0

\* the rest of an iteration (lines 241-280) once the descent has ended at d;
\* nread and lread are ghosts: the node_pool and leaf_data indices read
s64_after_descent(t, ray, tcur, pos, t1, d) ==
    LET nread == d.nread \cup {0}
        voxel_size == d.cell_size \div 4
        vx == clamp((pos[1] - d.cell_min[1]) \div voxel_size, 0, 3)
        vy == clamp((pos[2] - d.cell_min[2]) \div voxel_size, 0, 3)
        vz == clamp((pos[3] - d.cell_min[3]) \div voxel_size, 0, 3)
        vidx == s64_bit_index(vx, vy, vz)
        lp == d.node.child_ptr + s64_popcnt64_before(d.node.child_mask, vidx)
        c == s64_march_cell(d)
        lo == c.cell_min
        hi == add(c.cell_min, vec3(c.cell_size, c.cell_size, c.cell_size))
        tx == s64_axis_dt(ray.dir[1], lo[1], hi[1], pos[1])
        ty == s64_axis_dt(ray.dir[2], lo[2], hi[2], pos[2])
        tz == s64_axis_dt(ray.dir[3], lo[3], hi[3], pos[3])
        dt0 == Min2(tx, Min2(ty, tz))
        dt == s64_step_dt(dt0)
        tnext == IF dt >= Huge THEN Huge ELSE tcur + dt + MARCH_EPS
    IN  IF d.oob THEN [kind |-> "oob", nread |-> nread, lread |-> {}]
        ELSE IF d.node.is_leaf # 0 /\ ~d.missing /\ vidx \in d.node.child_mask
        THEN IF ~s64_in_range(lp, Len(t.leaf_data))
             THEN [kind |-> "oob", nread |-> nread, lread |-> {}]
             ELSE [kind |-> "hit", voxel_id |-> s64_leaf_byte(t, lp), nread |-> nread,
                   lread |-> {lp}]
        ELSE IF tnext > t1 THEN [kind |-> "exit", tcur |-> tnext, nread |-> nread, lread |-> {}]
        ELSE [kind |-> "cont", tcur |-> tnext, pos |-> add(ray.origin, mul(ray.dir, tnext)),
              nread |-> nread, lread |-> {}]

\* one iteration of the march loop (lines 203-280) at parameter tcur
s64_iteration(t, ray, tcur, pos, t1) ==
    s64_after_descent(t, ray, tcur, pos, t1,
                      s64_descend(t, s64_node(t, 0), t.bmin, t.bmax[1] - t.bmin[1], pos))

\* ------------------------------------------------------------------ inputs
\* cells that may be occupied, and through whose centres the rays pass
CandCells ==
    {<<0, 0, 0>>, <<1, 1, 1>>, <<3, 1, 1>>, <<1, 3, 1>>, <<1, 1, 3>>, <<4, 1, 1>>, <<15, 15, 15>>}

Cells(N) == {c \in CandCells : c[1] < N /\ c[2] < N /\ c[3] < N}
CellIndex(N, c) == (c[3] * N + c[2]) * N + c[1]

Grids(N) ==
    UNION {[S -> 1 .. MaxByte] :
              S \in {T \in SUBSET {CellIndex(N, c) : c \in Cells(N)} : Cardinality(T) <= MaxOcc}}

\* world bounds as in main(): a cube centred at the origin
WorldMin(N) == 0 - N * HalfVoxel
WorldMax(N) == N * HalfVoxel
Bounds6(N) == <<WorldMin(N), WorldMin(N), WorldMin(N), WorldMax(N), WorldMax(N), WorldMax(N)>>
Centre(N, c) == <<WorldMin(N) + (2 * c[1] + 1) * HalfVoxel,
                  WorldMin(N) + (2 * c[2] + 1) * HalfVoxel,
                  WorldMin(N) + (2 * c[3] + 1) * HalfVoxel>>

AxisDirs == {<<1, 0, 0>>, <<-1, 0, 0>>, <<0, 1, 0>>, <<0, -1, 0>>, <<0, 0, 1>>, <<0, 0, -1>>}
Axis(d) == IF d[1] # 0 THEN 1 ELSE IF d[2] # 0 THEN 2 ELSE 3

\* safe_inv_dir of src/src/tree/main.cpp
safe_inv(dc) == IF dc # 0 THEN FDiv(1, dc) ELSE Huge
safe_inv_dir(d) == <<safe_inv(d[1]), safe_inv(d[2]), safe_inv(d[3])>>

MkRay(o, d) == [origin |-> o, dir |-> d, inv_dir |-> safe_inv_dir(d)]

\* the point one voxel outside the grid from which direction d looks at cell c
Outside(N, c, d) ==
    LET a == Axis(d)
        w == IF d[a] > 0 THEN -1 ELSE N
    IN  Centre(N, [c EXCEPT ![a] = w])

\* a ray that starts on the low x face of cell (4, 2, 2), a face of a 4x4x4
\* block, and looks along -x
FaceRay(N) ==
    MkRay(<<WorldMin(N) + 8 * HalfVoxel, WorldMin(N) + 5 * HalfVoxel, WorldMin(N) + 5 * HalfVoxel>>,
          <<-1, 0, 0>>)

\* rays from outside through a cell centre; rays starting inside the grid;
\* rays that look away from the grid; rays that pass beside it
Rays(N) ==
    {FaceRay(N)} \cup
    {MkRay(Outside(N, c, d), d) : c \in Cells(N) \cup {<<2, 2, 2>>}, d \in AxisDirs}
    \cup {MkRay(Centre(N, <<2, 2, 2>>), d) : d \in AxisDirs}
    \cup {MkRay(Outside(N, <<1, 1, 1>>, d), mul(d, -1)) : d \in {<<1, 0, 0>>, <<0, -1, 0>>}}
    \cup {MkRay(Outside(N, <<-1, 1, 1>>, d), d) : d \in {<<0, 1, 0>>, <<0, 0, -1>>}}

\* ------------------------------------------------------------------- state
VARIABLES
    voxels,      \* the caller's voxel grid (state.voxels)
    grid_size,   \* its dimension N
    tree,        \* the S64Tree (state.tree)
    sq,          \* the s64tree_intersect calls in progress, one per caller
    items,       \* the flat (triangle, material) list given to the BVH builder
    bvh,         \* the BVH: the heap of its nodes and the root pointer
    bq,          \* the bvh_intersect calls in progress, one per caller
    mem,         \* the malloc'ed blocks of the BVH and the free() calls made
    frame        \* render_frame: its tasks and the pixel buffer

s64vars == <<voxels, grid_size, tree, sq>>
bvhvars == <<items, bvh, bq>>
vars == <<voxels, grid_size, tree, sq, items, bvh, bq, mem, frame>>

Callers == {1, 2}

S64Hit0 == [hit |-> FALSE, t |-> 0, point |-> <<0, 0, 0>>, normal |-> <<0, 0, 0>>, voxel_id |-> 0]
NoRay == MkRay(<<0, 0, 0>>, <<0, 0, 0>>)
SqIdle == [pc |-> "idle", ray |-> NoRay, out |-> S64Hit0, ret |-> FALSE, how |-> "none",
           tcur |-> 0, pos |-> <<0, 0, 0>>, t1 |-> 0, iter |-> 0, nread |-> {}, lread |-> {}]

NoTree == [node_pool |-> <<>>, leaf_data |-> <<>>, alloc |-> <<>>, grid_size |-> 0,
           bmin |-> <<0, 0, 0>>, bmax |-> <<0, 0, 0>>]

\* BvhRay, HitRecord and the locals of a bvh_intersect call; rec0 is a
\* ghost, the record as the caller passed it in
NoBvhRay == [origin |-> <<0, 0, 0>>, direction |-> <<0, 0, 0>>, inv_direction |-> <<0, 0, 0>>]
HitRecord0 == [hit |-> FALSE, t |-> Huge, point |-> <<0, 0, 0>>, normal |-> <<0, 0, 0>>, mat |-> 0]
BqIdle == [pc |-> "idle", ray |-> NoBvhRay, rec |-> HitRecord0, stack |-> <<>>, hit |-> FALSE,
           n |-> 0, i |-> 0, ret |-> FALSE, dropped |-> FALSE, acc |-> <<>>,
           rec0 |-> HitRecord0]
NoBvh == [heap |-> <<>>, root |-> 0, deep |-> 0]

\* live: the blocks malloc'ed and not yet freed; freed: the arguments of the
\* free() calls made, in order; calls: the bvh_free calls made by the program
MemNone == [live |-> {}, freed |-> <<>>, calls |-> 0]

\* no frame is being rendered
FrameIdle == [pc |-> "idle", bHeight |-> 0, bWidth |-> 0, num_threads |-> 0, i |-> 0,
              jobs |-> <<>>, waited |-> 0, buffer |-> <<>>]

InitS64 ==
    /\ mem = MemNone
    /\ frame = FrameIdle
    /\ items = <<>>
    /\ bvh = NoBvh
    /\ bq = [c \in Callers |-> BqIdle]
    /\ grid_size \in {Pow4(k) : k \in 1 .. MaxK}
    /\ voxels \in Grids(grid_size)
    /\ tree = NoTree
    /\ sq = [c \in Callers |-> SqIdle]

Built == tree.node_pool # <<>>

\* the tree is built while no query is in progress or holds a result
Quiet == \A c \in Callers : sq[c].pc = "idle"

\* state.tree = s64tree_build(state.voxels.data(), CUBE_GRID, state.bounds6)
S64Build ==
    /\ tree = NoTree
    /\ Quiet
    /\ tree' = s64tree_build(voxels, grid_size, Bounds6(grid_size))
    /\ UNCHANGED <<voxels, grid_size, sq, items, bvh, bq, mem, frame>>

\* lines 185-199: the call up to the first iteration
s64_begin(t, ray) ==
    LET out0 == [S64Hit0 EXCEPT !.t = Huge]
        done(how) == [SqIdle EXCEPT !.pc = "done", !.ray = ray, !.out = out0, !.how = how]
        bb == s64_aabb_hit(ray.origin, ray.inv_dir, t.bmin, t.bmax)
        tcur == Max2(bb.t0, 0)
    IN  IF t.node_pool = <<>> THEN done("empty")
        ELSE IF ~bb.hit THEN done("nooverlap")
        ELSE IF bb.t1 < 0 THEN done("nooverlap")
        ELSE [SqIdle EXCEPT !.pc = "march", !.ray = ray, !.out = out0, !.tcur = tcur,
                            !.pos = add(ray.origin, mul(ray.dir, tcur)), !.t1 = bb.t1]

\* lines 258-262
s64_hit_record_noflag(tcur, pos, id) ==
    [hit |-> FALSE, t |-> tcur, point |-> pos, normal |-> vec3(0, 1, 0), voxel_id |-> id]

s64_hit_record(tcur, pos, id) ==
    [hit |-> TRUE, t |-> tcur, point |-> pos, normal |-> vec3(0, 1, 0), voxel_id |-> id]

\* the loop test that follows the iteration it (lines 203 and 278-280)
s64_loop_test(s0, it) ==
    LET s == [s0 EXCEPT !.nread = @ \cup it.nread, !.lread = @ \cup it.lread]
    IN  IF it.kind = "oob" THEN [s EXCEPT !.pc = "done", !.how = "oob"]
        ELSE IF it.kind = "hit"
        THEN [s EXCEPT !.pc = "done", !.how = "hit", !.ret = TRUE,
                       !.out = s64_hit_record(s.tcur, s.pos, it.voxel_id)]
        ELSE IF it.kind = "exit" THEN [s EXCEPT !.pc = "done", !.how = "exit", !.tcur = it.tcur]
        ELSE IF s.iter + 1 >= ITER_CAP
        THEN [s EXCEPT !.pc = "done", !.how = "cap", !.tcur = it.tcur, !.pos = it.pos,
                       !.iter = s.iter + 1]
        ELSE [s EXCEPT !.tcur = it.tcur, !.pos = it.pos, !.iter = s.iter + 1]

\* one loop iteration, and the loop test that follows it
s64_step(t, s0) == s64_loop_test(s0, s64_iteration(t, s0.ray, s0.tcur, s0.pos, s0.t1))

\* what a call leaves of the tree it is given: const S64Tree* is only read
s64_after_query_cached(t, s) == [t EXCEPT !.node_pool[1].child_ptr = s.iter]

s64_after_query(t, s) == t

S64IntersectBegin(c, rays) ==
    /\ sq[c].pc = "idle"
    /\ \E r \in rays : sq' = [sq EXCEPT ![c] = s64_begin(tree, r)]
    /\ UNCHANGED <<voxels, grid_size, tree, items, bvh, bq, mem, frame>>

S64March(c) ==
    /\ sq[c].pc = "march"
    /\ sq' = [sq EXCEPT ![c] = s64_step(tree, sq[c])]
    /\ tree' = s64_after_query(tree, sq[c])
    /\ UNCHANGED <<voxels, grid_size, items, bvh, bq, mem, frame>>

\* the caller (trace_ray) consumes the result
S64Return(c) ==
    /\ sq[c].pc = "done"
    /\ sq' = [sq EXCEPT ![c] = SqIdle]
    /\ UNCHANGED <<voxels, grid_size, tree, items, bvh, bq, mem, frame>>

NextS64 ==
    \/ S64Build
    \/ S64IntersectBegin(1, Rays(grid_size))
    \/ S64March(1)
    \/ S64Return(1)

SpecS64 == InitS64 /\ [][NextS64]_vars

\* ===================================================================== BVH
\* Lengths are in units of 1e-4 (EPSILON).  Triangle vertices lie on even
\* lattice points and ray origins on odd ones, so that no slab product of
\* box_hit is 0 * infinity.
EPSILON == 1          \* 0.0001f
BOX_TMIN == 10        \* 0.001f, the lower bound bvh_intersect gives box_hit
DET_EPS == 100        \* 1e-6f, in units of 1e-4 squared
STACK_SIZE == 1028
LEAF_SIZE == 4
MaxTris == 6          \* at most MaxTris input triangles
DeepLevels == 1027    \* internal levels of the degenerate tree

Abs(a) == IF a < 0 THEN 0 - a ELSE a

RECURSIVE Gcd(_, _)
Gcd(a, b) == IF b = 0 THEN a ELSE Gcd(b, a % b)

\* norm(): the direction of v; a vector is kept as its shortest integer
\* multiple, the unit length is not represented
norm(v) ==
    LET g == Gcd(Gcd(Abs(v[1]), Abs(v[2])), Abs(v[3]))
    IN  IF g = 0 THEN v ELSE <<FDiv(v[1], g), FDiv(v[2], g), FDiv(v[3], g)>>

box_tri(t) ==
    [min |-> <<Min2(Min2(t.v0[1], t.v1[1]), t.v2[1]),
               Min2(Min2(t.v0[2], t.v1[2]), t.v2[2]),
               Min2(Min2(t.v0[3], t.v1[3]), t.v2[3])>>,
     max |-> <<Max2(Max2(t.v0[1], t.v1[1]), t.v2[1]),
               Max2(Max2(t.v0[2], t.v1[2]), t.v2[2]),
               Max2(Max2(t.v0[3], t.v1[3]), t.v2[3])>>]

box_merge_minonly(a, b) ==
    [min |-> <<Min2(a.min[1], b.min[1]), Min2(a.min[2], b.min[2]), Min2(a.min[3], b.min[3])>>,
     max |-> a.max]

box_merge(a, b) ==
    [min |-> <<Min2(a.min[1], b.min[1]), Min2(a.min[2], b.min[2]), Min2(a.min[3], b.min[3])>>,
     max |-> <<Max2(a.max[1], b.max[1]), Max2(a.max[2], b.max[2]), Max2(a.max[3], b.max[3])>>]

box_surface_area(box) ==
    LET dx == box.max[1] - box.min[1]
        dy == box.max[2] - box.min[2]
        dz == box.max[3] - box.min[3]
    IN  2 * (dx * dy + dy * dz + dz * dx)

\* (b - o) * inv_direction, where inv_direction is 1/d and 1/0 = +infinity
MulInvInf(a, inv) == IF inv = Huge THEN Sign(a) * Huge ELSE a * inv

box_hit(box, r, tmin, tmax) ==
    LET t0x == MulInvInf(box.min[1] - r.origin[1], r.inv_direction[1])
        t1x == MulInvInf(box.max[1] - r.origin[1], r.inv_direction[1])
        t0y == MulInvInf(box.min[2] - r.origin[2], r.inv_direction[2])
        t1y == MulInvInf(box.max[2] - r.origin[2], r.inv_direction[2])
        t0z == MulInvInf(box.min[3] - r.origin[3], r.inv_direction[3])
        t1z == MulInvInf(box.max[3] - r.origin[3], r.inv_direction[3])
        lo == Max2(Max2(Max2(tmin, Min2(t0x, t1x)), Min2(t0y, t1y)), Min2(t0z, t1z))
        hi == Min2(Min2(Min2(tmax, Max2(t0x, t1x)), Max2(t0y, t1y)), Max2(t0z, t1z))
    IN  hi >= lo

\* cmp_x, cmp_y, cmp_z
cmp_axis(a, b, axis) ==
    (IF a.center[axis] > b.center[axis] THEN 1 ELSE 0)
    - (IF a.center[axis] < b.center[axis] THEN 1 ELSE 0)

\* qsort: the inputs have pairwise different centroids on every axis, so
\* the sorted order is the same for every sorting algorithm: item i goes to
\* the place given by the number of items that compare below it
sort_place(items_, i, axis) ==
    1 + Cardinality({j \in DOMAIN items_ :
                       \/ cmp_axis(items_[j], items_[i], axis) < 0
                       \/ cmp_axis(items_[j], items_[i], axis) = 0 /\ j < i})

qsort(items_, axis) ==
    [k \in 1 .. Len(items_) |->
        items_[CHOOSE i \in DOMAIN items_ : sort_place(items_, i, axis) = k]]

\* the box of items[from .. to] (1-based, from <= to)
RECURSIVE bounds_of(_, _, _)
bounds_of(items_, from, to) ==
    IF from = to THEN box_tri(items_[from].tri)
    ELSE box_merge(bounds_of(items_, from, to - 1), box_tri(items_[to].tri))

\* lines 179-181
split_axis(bounds) ==
    LET extent == sub(bounds.max, bounds.min)
        axis == IF extent[2] > extent[1] THEN 2 ELSE 1
    IN  IF extent[3] > extent[axis] THEN 3 ELSE axis

\* line 202 without the item counts
sah_cost_unweighted(items_, n, split) ==
    box_surface_area(bounds_of(items_, 1, split))
    + box_surface_area(bounds_of(items_, split + 1, n))

sah_cost(items_, n, split) ==
    box_surface_area(bounds_of(items_, 1, split)) * split
    + box_surface_area(bounds_of(items_, split + 1, n)) * (n - split)

\* the loop of lines 190-208 from candidate i on
RECURSIVE sah_scan(_, _, _, _, _, _)
sah_scan(items_, n, num_buckets, i, best_cost, best_split) ==
    IF ~(i < num_buckets /\ i < n) THEN best_split
    ELSE LET split == (n * i) \div num_buckets
         IN  IF split <= 0 \/ split >= n
             THEN sah_scan(items_, n, num_buckets, i + 1, best_cost, best_split)
             ELSE IF sah_cost(items_, n, split) < best_cost
                  THEN sah_scan(items_, n, num_buckets, i + 1, sah_cost(items_, n, split), split)
                  ELSE sah_scan(items_, n, num_buckets, i + 1, best_cost, best_split)

\* The heap is the sequence of the BVHNodes malloc'ed so far; a pointer is
\* an index into it and NULL is 0.  NULL arrays are empty sequences.
NULL == 0

\* line 171: the material copied into slot i of a leaf
build_leaf_mat_first(items_, i) == items_[1].mat

build_leaf_mat(items_, i) == items_[i].mat

\* line 164: the node of n items is a leaf
build_is_leaf_lt(n) == n < LEAF_SIZE

build_is_leaf(n) == n <= LEAF_SIZE

RECURSIVE build(_, _)
build(heap, items_) ==
    LET n == Len(items_)
        node == Len(heap) + 1
        bounds == bounds_of(items_, 1, n)
    IN  IF build_is_leaf(n)
        THEN [heap |-> Append(heap, [bounds |-> bounds, left |-> NULL, right |-> NULL,
                                     tris |-> [i \in 1 .. n |-> items_[i].tri],
                                     mats |-> [i \in 1 .. n |-> build_leaf_mat(items_, i)],
                                     count |-> n]),
              root |-> node, deep |-> 0]
        ELSE LET sorted == qsort(items_, split_axis(bounds))
                 num_buckets == IF n < 16 THEN n ELSE 16
                 best_split == sah_scan(sorted, n, num_buckets, 1, Huge, n \div 2)
                 self == [bounds |-> bounds, left |-> NULL, right |-> NULL,
                          tris |-> <<>>, mats |-> <<>>, count |-> 0]
                 l == build(Append(heap, self), SubSeq(sorted, 1, best_split))
                 r == build(l.heap, SubSeq(sorted, best_split + 1, n))
             IN  [heap |-> [r.heap EXCEPT ![node].left = l.root, ![node].right = r.root],
                  root |-> node, deep |-> 0]

\* Item of bvh_build; center is kept in thirds of a unit (the sum of the
\* three vertices), so that the division by 3.0f is exact
MkItem(tri, mat) == [tri |-> tri, mat |-> mat, center |-> add(add(tri.v0, tri.v1), tri.v2)]

\* the acceptance test of line 285
tri_accept_no_best(t, rec) == ~(t < EPSILON)

tri_accept(t, rec) == ~(t < EPSILON \/ t >= rec.t)

\* intersect_triangle: the record it leaves and the flag it returns.  With
\* a # 0, u = su / |a|, v = sv / |a| and t = st / |a|.
intersect_triangle(ray, tri, mat, rec) ==
    LET edge1 == sub(tri.v1, tri.v0)
        edge2 == sub(tri.v2, tri.v0)
        h == cross(ray.direction, edge2)
        a == dot(edge1, h)
        s == sub(ray.origin, tri.v0)
        q == cross(s, edge1)
        su == dot(s, h) * Sign(a)
        sv == dot(ray.direction, q) * Sign(a)
        st == dot(edge2, q) * Sign(a)
        t == FDiv(st, Abs(a))
    IN  IF Abs(a) < DET_EPS THEN [rec |-> rec, ret |-> FALSE]
        ELSE IF su < 0 \/ su > Abs(a) THEN [rec |-> rec, ret |-> FALSE]
        ELSE IF sv < 0 \/ su + sv > Abs(a) THEN [rec |-> rec, ret |-> FALSE]
        ELSE IF ~tri_accept(t, rec) THEN [rec |-> rec, ret |-> FALSE]
        ELSE [rec |-> [hit |-> TRUE, t |-> t, point |-> add(ray.origin, mul(ray.direction, t)),
                       normal |-> norm(cross(edge1, edge2)), mat |-> mat],
              ret |-> TRUE]

\* line 316
bvh_can_push_le(sp) == sp + 2 <= STACK_SIZE

bvh_can_push_half(sp) == 2 * sp + 2 < STACK_SIZE

bvh_can_push(sp) == sp + 2 < STACK_SIZE

\* ------------------------------------------------------------- BVH inputs
Tri(a, b, c) == [v0 |-> a, v1 |-> b, v2 |-> c]
\* a triangle in the plane z, its right angle at (sh, sh)
Flat(z, sh) == Tri(<<sh, sh, z>>, <<sh + 40, sh, z>>, <<sh, sh + 40, z>>)

\* candidate triangles; their centroids differ pairwise on every axis
CandTris ==
    <<Flat(0, 0), Flat(-20, 2), Flat(-40, 4), Flat(-60, 6), Flat(20, -2),
      Tri(<<200, 0, -10>>, <<240, 0, -10>>, <<200, 44, -30>>),
      Tri(<<-4, -4, -104>>, <<36, -4, -64>>, <<-4, 36, -104>>)>>

\* the members of S in increasing order
RECURSIVE SetToSeq(_)
SetToSeq(S) ==
    IF S = {} THEN <<>>
    ELSE LET m == CHOOSE x \in S : \A y \in S : x <= y IN <<m>> \o SetToSeq(S \ {m})
Reverse(q) == [i \in 1 .. Len(q) |-> q[Len(q) + 1 - i]]

\* the material of candidate k is k
ItemsOf(ks) == [i \in 1 .. Len(ks) |-> MkItem(CandTris[ks[i]], ks[i])]

ItemSets ==
    LET subsets == {S \in SUBSET (1 .. Len(CandTris)) : S # {} /\ Cardinality(S) <= MaxTris}
    IN  {ItemsOf(SetToSeq(S)) : S \in subsets} \cup {ItemsOf(Reverse(SetToSeq(S))) : S \in subsets}

bvh_inv(dc) == IF dc = 0 THEN Huge ELSE FDiv(1, dc)
MkBvhRay(o, d) ==
    [origin |-> o, direction |-> d, inv_direction |-> <<bvh_inv(d[1]), bvh_inv(d[2]), bvh_inv(d[3])>>]

BvhRays ==
    {MkBvhRay(<<11, 11, 101>>, <<0, 0, -1>>), MkBvhRay(<<11, 11, 5>>, <<0, 0, -1>>),
     MkBvhRay(<<11, 11, 1>>, <<0, 0, -1>>), MkBvhRay(<<11, 11, 0>>, <<0, 0, -1>>),
     MkBvhRay(<<11, 11, -201>>, <<0, 0, 1>>), MkBvhRay(<<-51, 11, -89>>, <<1, 0, 0>>),
     MkBvhRay(<<111, 111, 101>>, <<0, 0, -1>>), MkBvhRay(<<31, 31, 101>>, <<0, 0, -1>>)}

DeepRays == {MkBvhRay(<<11, 11, 101>>, <<0, 0, -1>>), MkBvhRay(<<31, 31, 101>>, <<0, 0, -1>>)}

\* A degenerate but well-formed tree of b.deep internal levels: every
\* internal node has a leaf as its left child and the next internal node (the
\* last one: a leaf) as its right child.  Its 2 * deep + 1 nodes are not
\* listed in the heap; node p of it is DeepNode(deep, p).
DeepLeaf == [bounds |-> box_tri(CandTris[1]), left |-> NULL, right |-> NULL,
             tris |-> <<CandTris[1]>>, mats |-> <<1>>, count |-> 1]
DeepNode(levels, p) ==
    IF p % 2 = 1 /\ p < 2 * levels + 1
    THEN [bounds |-> box_tri(CandTris[1]), left |-> p + 1, right |-> p + 2,
          tris |-> <<>>, mats |-> <<>>, count |-> 0]
    ELSE DeepLeaf

\* the BVHNode a pointer refers to
Node(b, p) == IF b.deep > 0 THEN DeepNode(b.deep, p) ELSE b.heap[p]

\* ---------------------------------------------------------- BVH operations
bvh_build(items_) == build(<<>>, items_)

BvhQuiet == \A c \in Callers : bq[c].pc = "idle"

\* the blocks build leaves malloc'ed: every BVHNode (line 160) and the
\* triangle and material arrays of the nodes that got them (lines 166-167)
build_mallocs(heap) ==
    {<<"node", p>> : p \in DOMAIN heap}
    \cup {<<"tris", p>> : p \in {k \in DOMAIN heap : heap[k].tris # <<>>}}
    \cup {<<"mats", p>> : p \in {k \in DOMAIN heap : heap[k].mats # <<>>}}

BvhBuild ==
    /\ bvh = NoBvh
    /\ BvhQuiet
    /\ items # <<>>
    /\ bvh' = bvh_build(items)
    /\ mem' = [mem EXCEPT !.live = @ \cup build_mallocs(bvh_build(items).heap)]
    /\ UNCHANGED <<voxels, grid_size, tree, sq, items, bq, frame>>

\* lines 251-252: the free() calls for a leaf's arrays
bvh_free_arrays_leak(n) == <<<<"tris", n>>>>

bvh_free_arrays(n) == <<<<"tris", n>>, <<"mats", n>>>>

\* bvh_free: the arguments of the free() calls it makes, in order
RECURSIVE bvh_free(_, _)
bvh_free(heap, n) ==
    IF n = NULL THEN <<>>
    ELSE (IF heap[n].count # 0 THEN bvh_free_arrays(n)
          ELSE bvh_free(heap, heap[n].left) \o bvh_free(heap, heap[n].right))
         \o <<<<"node", n>>>>

\* the program frees its tree once: bvh_free(state.bvh_root)
BvhFree ==
    /\ BvhQuiet
    /\ mem.calls = 0
    /\ LET fs == bvh_free(bvh.heap, bvh.root)
       IN  mem' = [live |-> mem.live \ {fs[k] : k \in DOMAIN fs},
                   freed |-> mem.freed \o fs,
                   calls |-> mem.calls + 1]
    /\ UNCHANGED <<voxels, grid_size, tree, sq, items, bvh, bq, frame>>

\* lines 297-303
bvh_begin(b, ray, rec) ==
    IF b.root = NULL
    THEN [BqIdle EXCEPT !.pc = "done", !.ray = ray, !.rec = rec, !.rec0 = rec]
    ELSE [BqIdle EXCEPT !.pc = "loop", !.ray = ray, !.rec = rec, !.rec0 = rec,
                        !.stack = <<b.root>>]

\* one evaluation of the loop test and of the loop body up to the leaf's
\* triangle loop (lines 305-320)
bvh_loop(b, q) ==
    IF ~(Len(q.stack) > 0) THEN [q EXCEPT !.pc = "done", !.ret = q.hit]
    ELSE LET n == q.stack[Len(q.stack)]
             popped == SubSeq(q.stack, 1, Len(q.stack) - 1)
         IN  IF n = NULL THEN [q EXCEPT !.stack = popped]
             ELSE IF ~box_hit(Node(b, n).bounds, q.ray, BOX_TMIN, q.rec.t)
             THEN [q EXCEPT !.stack = popped]
             ELSE IF Node(b, n).count # 0
             THEN [q EXCEPT !.stack = popped, !.pc = "tri", !.n = n, !.i = 0]
             ELSE IF bvh_can_push(Len(popped))
             THEN [q EXCEPT !.stack = popped \o <<Node(b, n).left, Node(b, n).right>>]
             ELSE [q EXCEPT !.stack = popped, !.dropped = TRUE]

\* line 313: the flag after a triangle test that returned ret
bvh_hit_flag_last(hit, ret) == ret

bvh_hit_flag(hit, ret) == hit \/ ret

\* one iteration of the triangle loop of lines 312-314; acc is a ghost, the
\* distances of the intersections accepted so far
bvh_tri(b, q) ==
    LET r == intersect_triangle(q.ray, Node(b, q.n).tris[q.i + 1], Node(b, q.n).mats[q.i + 1], q.rec)
    IN  [q EXCEPT !.rec = r.rec,
                  !.hit = bvh_hit_flag(q.hit, r.ret),
                  !.acc = IF r.ret THEN Append(q.acc, r.rec.t) ELSE q.acc,
                  !.i = q.i + 1,
                  !.pc = IF q.i + 1 < Node(b, q.n).count THEN "tri" ELSE "loop"]

\* what a query leaves of the tree it is given: BVHNode is only read
bvh_after_query(b, q) == b

BvhIntersectBegin(c, rays) ==
    /\ bq[c].pc = "idle"
    /\ \E r \in rays : bq' = [bq EXCEPT ![c] = bvh_begin(bvh, r, HitRecord0)]
    /\ UNCHANGED <<voxels, grid_size, tree, sq, items, bvh, mem, frame>>

BvhLoop(c) ==
    /\ bq[c].pc = "loop"
    /\ bq' = [bq EXCEPT ![c] = bvh_loop(bvh, bq[c])]
    /\ bvh' = bvh_after_query(bvh, bq[c])
    /\ UNCHANGED <<voxels, grid_size, tree, sq, items, mem, frame>>

BvhTri(c) ==
    /\ bq[c].pc = "tri"
    /\ bq' = [bq EXCEPT ![c] = bvh_tri(bvh, bq[c])]
    /\ bvh' = bvh_after_query(bvh, bq[c])
    /\ UNCHANGED <<voxels, grid_size, tree, sq, items, mem, frame>>

BvhReturn(c) ==
    /\ bq[c].pc = "done"
    /\ bq' = [bq EXCEPT ![c] = BqIdle]
    /\ UNCHANGED <<voxels, grid_size, tree, sq, items, bvh, mem, frame>>

S64Unused ==
    /\ grid_size = 4
    /\ voxels = <<>>
    /\ tree = NoTree
    /\ sq = [c \in Callers |-> SqIdle]

InitBvh ==
    /\ mem = MemNone
    /\ frame = FrameIdle
    /\ S64Unused
    /\ items \in ItemSets
    /\ bvh = NoBvh
    /\ bq = [c \in Callers |-> BqIdle]

NextBvh ==
    \/ BvhBuild
    \/ BvhIntersectBegin(1, BvhRays)
    \/ BvhLoop(1)
    \/ BvhTri(1)
    \/ BvhReturn(1)

SpecBvh == InitBvh /\ [][NextBvh]_vars

\* records a caller may pass in: a fresh one, and ones left by an earlier
\* query, with or without a hit, closer than some or all of the triangles
Recs ==
    {HitRecord0} \cup
    {[HitRecord0 EXCEPT !.hit = h, !.t = t, !.mat = 9] : h \in BOOLEAN, t \in {50, 90}}

\* bvh_intersect called with a record of the caller's
BvhIntersectInto(c, rays, recs) ==
    /\ bq[c].pc = "idle"
    /\ \E r \in rays, rec \in recs : bq' = [bq EXCEPT ![c] = bvh_begin(bvh, r, rec)]
    /\ UNCHANGED <<voxels, grid_size, tree, sq, items, bvh, mem, frame>>

NextRec ==
    \/ BvhBuild
    \/ BvhIntersectInto(1, BvhRays, Recs)
    \/ BvhLoop(1)
    \/ BvhTri(1)
    \/ BvhReturn(1)

SpecRec == InitBvh /\ [][NextRec]_vars

\* building and freeing
NextFree ==
    \/ BvhBuild
    \/ BvhFree

SpecFree == InitBvh /\ [][NextFree]_vars

\* item lists of 16 and more triangles, for which num_buckets is 16: flat
\* triangles at unevenly spaced heights
MaxLong == 19
LongTri(k) == Flat(0 - 2 * k * k, 2 * k)
LongItems(n) == [i \in 1 .. n |-> MkItem(LongTri(i - 1), i)]
LongItemSets ==
    {LongItems(n) : n \in 15 .. MaxLong} \cup {Reverse(LongItems(n)) : n \in 15 .. MaxLong}

InitSah ==
    /\ mem = MemNone
    /\ frame = FrameIdle
    /\ S64Unused
    /\ items \in ItemSets \cup LongItemSets
    /\ bvh = NoBvh
    /\ bq = [c \in Callers |-> BqIdle]

SpecSah == InitSah /\ [][BvhBuild]_vars

InitDeep ==
    /\ mem = MemNone
    /\ frame = FrameIdle
    /\ S64Unused
    /\ items = <<>>
    /\ bvh = [heap |-> <<>>, root |-> 1, deep |-> DeepLevels]
    /\ bq = [c \in Callers |-> BqIdle]

NextDeep ==
    \/ BvhIntersectBegin(1, DeepRays)
    \/ BvhLoop(1)
    \/ BvhTri(1)
    \/ BvhReturn(1)

SpecDeep == InitDeep /\ [][NextDeep]_vars

\* ------------------------------------------------------ concurrent queries
\* Two workers query one built tree at the same time, each with its own ray
\* and hit record (render_frame runs trace_ray on several threads).  The
\* program holds either a voxel tree or a BVH.
ConcGrids(N) ==
    {g \in Grids(N) : DOMAIN g = {CellIndex(N, c) : c \in Cells(N) \cap {<<1, 1, 1>>, <<4, 1, 1>>}}}

ConcRays(N) ==
    {MkRay(Outside(N, <<1, 1, 1>>, d), d) : d \in AxisDirs}
    \cup {MkRay(Outside(N, <<2, 2, 2>>, d), d) : d \in {<<1, 0, 0>>, <<0, -1, 0>>}}

ConcItems ==
    LET ks == SetToSeq(1 .. Min2(MaxTris, Len(CandTris)))
    IN  {ItemsOf(ks), ItemsOf(Reverse(ks))}

InitConc ==
    /\ mem = MemNone
    /\ frame = FrameIdle
    /\ sq = [c \in Callers |-> SqIdle]
    /\ bq = [c \in Callers |-> BqIdle]
    /\ tree = NoTree
    /\ bvh = NoBvh
    /\ \/ /\ items = <<>>
          /\ grid_size \in {Pow4(k) : k \in 1 .. MaxK}
          /\ voxels \in ConcGrids(grid_size)
       \/ /\ items \in ConcItems
          /\ grid_size = 4
          /\ voxels = <<>>

NextConc ==
    \/ items = <<>> /\ S64Build
    \/ \E c \in Callers : items = <<>> /\ Built /\ S64IntersectBegin(c, ConcRays(grid_size))
    \/ \E c \in Callers : S64March(c)
    \/ \E c \in Callers : S64Return(c)
    \/ BvhBuild
    \/ \E c \in Callers : bvh # NoBvh /\ BvhIntersectBegin(c, BvhRays)
    \/ \E c \in Callers : BvhLoop(c)
    \/ \E c \in Callers : BvhTri(c)
    \/ \E c \in Callers : BvhReturn(c)

SpecConc == InitConc /\ [][NextConc]_vars

\* trees of several depths: degenerate chains, among them one whose depth is
\* half the stack capacity, and trees made by build
Depths == {1, 2, STACK_SIZE \div 2, DeepLevels}

InitDepth ==
    /\ mem = MemNone
    /\ frame = FrameIdle
    /\ S64Unused
    /\ bq = [c \in Callers |-> BqIdle]
    /\ \/ /\ items = <<>>
          /\ bvh \in {[heap |-> <<>>, root |-> 1, deep |-> d] : d \in Depths}
       \/ /\ items \in ConcItems
          /\ bvh = bvh_build(items)

SpecDepth == InitDepth /\ [][NextDeep]_vars

\* ------------------------------------------------- trees build did not make
\* s64tree_intersect takes any S64Tree.  A built tree whose node_pool and
\* leaf_data are cut short, and whose root mask may have all 64 bits set,
\* has child and payload indices that point past the end of the arrays.
Truncated(t, nn, nl) ==
    [t EXCEPT !.node_pool = SubSeq(@, 1, nn), !.alloc = SubSeq(@, 1, nn),
              !.leaf_data = SubSeq(@, 1, nl)]

Overfull(t) ==
    IF t.node_pool = <<>> THEN t ELSE [t EXCEPT !.node_pool[1].child_mask = 0 .. 63]

AnyTrees(vox, N) ==
    LET b == s64tree_build(vox, N, Bounds6(N))
        cut == {Truncated(b, nn, nl) : nn \in 0 .. Len(b.node_pool), nl \in 0 .. Len(b.leaf_data)}
    IN  cut \cup {Overfull(t) : t \in cut}

InitAny ==
    /\ mem = MemNone
    /\ frame = FrameIdle
    /\ items = <<>>
    /\ bvh = NoBvh
    /\ bq = [c \in Callers |-> BqIdle]
    /\ grid_size \in {Pow4(k) : k \in 1 .. MaxK}
    /\ voxels \in ConcGrids(grid_size)
    /\ tree \in AnyTrees(voxels, grid_size)
    /\ sq = [c \in Callers |-> SqIdle]

NextAny ==
    \/ S64IntersectBegin(1, Rays(grid_size))
    \/ S64March(1)
    \/ S64Return(1)

SpecAny == InitAny /\ [][NextAny]_vars

\* ------------------------------------------------------------- render_frame
\* src/src/tree/main.cpp: render_frame starts num_threads tasks, each of which
\* renders the rows y0 <= y < y1 of the buffer, and waits for all of them; the
\* main loop then presents the buffer.  A pixel of the buffer holds the set of
\* the tasks that have written it in this frame (the colours are not modelled).
MaxRows == 5       \* bHeight in 1 .. MaxRows
MaxWidth == 2      \* bWidth in 1 .. MaxWidth
MaxThreads == 4    \* num_threads in 1 .. MaxThreads

\* line 147: the first row of task i and the row after its last one
render_y0_floor(i, H, T) == i * (H \div T)

render_y0(i, H, T) == (i * H) \div T

render_y1(i, H, T) == IF i = T - 1 THEN H ELSE ((i + 1) * H) \div T

InitRender ==
    /\ S64Unused
    /\ items = <<>>
    /\ bvh = NoBvh
    /\ bq = [c \in Callers |-> BqIdle]
    /\ mem = MemNone
    /\ \E H \in 1 .. MaxRows, W \in 1 .. MaxWidth, T \in 1 .. MaxThreads :
           frame = [FrameIdle EXCEPT !.bHeight = H, !.bWidth = W, !.num_threads = T,
                                     !.buffer = [p \in 1 .. H * W |-> {}]]

\* the main loop calls render_frame (line 280)
RenderBegin ==
    /\ frame.pc \in {"idle", "presented"}
    /\ frame' = [frame EXCEPT !.pc = "launch", !.i = 0, !.jobs = <<>>, !.waited = 0,
                               !.buffer = [p \in DOMAIN frame.buffer |-> {}]]
    /\ UNCHANGED <<voxels, grid_size, tree, sq, items, bvh, bq, mem>>

\* one iteration of the loop of line 147: std::async starts task i
RenderLaunch ==
    /\ frame.pc = "launch"
    /\ frame.i < frame.num_threads
    /\ LET y0 == render_y0(frame.i, frame.bHeight, frame.num_threads)
           y1 == render_y1(frame.i, frame.bHeight, frame.num_threads)
       IN  frame' = [frame EXCEPT !.jobs = Append(@, [y0 |-> y0, y1 |-> y1, y |-> y0]),
                                  !.i = @ + 1,
                                  !.pc = IF frame.i + 1 < frame.num_threads
                                         THEN "launch" ELSE "wait"]
    /\ UNCHANGED <<voxels, grid_size, tree, sq, items, bvh, bq, mem>>

\* render_rows (lines 130-143): task j renders its next row
RenderTask(j) ==
    /\ j \in 1 .. Len(frame.jobs)
    /\ frame.jobs[j].y < frame.jobs[j].y1
    /\ LET y == frame.jobs[j].y
           row == {y * frame.bWidth + x + 1 : x \in 0 .. frame.bWidth - 1}
       IN  frame' = [frame EXCEPT !.jobs[j].y = y + 1,
                                  !.buffer = [p \in DOMAIN frame.buffer |->
                                                 IF p \in row THEN frame.buffer[p] \cup {j}
                                                 ELSE frame.buffer[p]]]
    /\ UNCHANGED <<voxels, grid_size, tree, sq, items, bvh, bq, mem>>

\* line 148: j.wait() returns when task j has finished
RenderWait ==
    /\ frame.pc = "wait"
    /\ frame.waited < Len(frame.jobs)
    /\ frame.jobs[frame.waited + 1].y >= frame.jobs[frame.waited + 1].y1
    /\ frame' = [frame EXCEPT !.waited = @ + 1,
                               !.pc = IF frame.waited + 1 < Len(frame.jobs)
                                      THEN "wait" ELSE "returned"]
    /\ UNCHANGED <<voxels, grid_size, tree, sq, items, bvh, bq, mem>>

\* lines 281-294: updateFramebuffer and SDL_RenderPresent
RenderPresent ==
    /\ frame.pc = "returned"
    /\ frame' = [frame EXCEPT !.pc = "presented"]
    /\ UNCHANGED <<voxels, grid_size, tree, sq, items, bvh, bq, mem>>

NextRender ==
    \/ RenderBegin
    \/ RenderLaunch
    \/ \E j \in 1 .. Len(frame.jobs) : RenderTask(j)
    \/ RenderWait
    \/ RenderPresent

SpecRender == InitRender /\ [][NextRender]_vars

\* ---------------------------------------------------- what the grid says
\* The claims below compare the answers of the tree with the grid itself.
OccupiedCells ==
    {<<i % grid_size, (i \div grid_size) % grid_size, i \div (grid_size * grid_size)>> :
        i \in DOMAIN voxels}
GridByte(v) == VoxAt(voxels, grid_size, v[1], v[2], v[3])
VoxelWorld == 2 * HalfVoxel
VoxelLo(v) == add(<<WorldMin(grid_size), WorldMin(grid_size), WorldMin(grid_size)>>,
                  mul(v, VoxelWorld))
VoxelHi(v) == add(VoxelLo(v), <<VoxelWorld, VoxelWorld, VoxelWorld>>)

\* the parameters at which a ray is strictly inside a slab lo < x < hi
SlabSpan(o, d, lo, hi) ==
    IF d = 0 THEN (IF lo < o /\ o < hi THEN [a |-> 0 - Huge, b |-> Huge]
                                       ELSE [a |-> Huge, b |-> 0 - Huge])
    ELSE IF d > 0 THEN [a |-> FDiv(lo - o, d), b |-> FDiv(hi - o, d)]
    ELSE [a |-> FDiv(hi - o, d), b |-> FDiv(lo - o, d)]

BoxSpan(ray, lo, hi) ==
    LET sx == SlabSpan(ray.origin[1], ray.dir[1], lo[1], hi[1])
        sy == SlabSpan(ray.origin[2], ray.dir[2], lo[2], hi[2])
        sz == SlabSpan(ray.origin[3], ray.dir[3], lo[3], hi[3])
    IN  [a |-> Max2(sx.a, Max2(sy.a, sz.a)), b |-> Min2(sx.b, Min2(sy.b, sz.b))]

VoxelSpan(ray, v) == BoxSpan(ray, VoxelLo(v), VoxelHi(v))
GridSpan(ray) == BoxSpan(ray, VoxelLo(<<0, 0, 0>>), VoxelHi(<<grid_size - 1, grid_size - 1, grid_size - 1>>))
Entry(ray) == Max2(GridSpan(ray).a, 0)

\* the occupied voxels whose interior the ray crosses at some t >= 0
OnPath(ray) == {v \in OccupiedCells : VoxelSpan(ray, v).a < VoxelSpan(ray, v).b /\ VoxelSpan(ray, v).b > 0}
\* the ray crosses the whole of voxel v between the parameters a and b
CrossedBetween(ray, v, a, b) ==
    LET sp == VoxelSpan(ray, v) IN sp.a < sp.b /\ a <= sp.a /\ sp.b <= b
IsFirstOnPath(ray, v) ==
    v \in OnPath(ray) /\ \A w \in OnPath(ray) : VoxelSpan(ray, v).a <= VoxelSpan(ray, w).a
FromOutside(ray) == GridSpan(ray).a < GridSpan(ray).b /\ GridSpan(ray).a > 0

Done(c) == sq[c].pc = "done" /\ Built

\* C1: a reported hit is the first occupied voxel along the ray: no occupied
\* voxel is crossed between the entry into the bounds and the hit position.
C1_FirstOccupied ==
    \A c \in Callers :
        (Done(c) /\ sq[c].out.hit) =>
            ~\E v \in OccupiedCells :
                CrossedBetween(sq[c].ray, v, Entry(sq[c].ray), sq[c].out.t)

\* C2: an axis-aligned ray from outside the grid through the centre of an
\* occupied cell, with no occupied cell before it, hits with that cell's byte.
C2_CentreHit ==
    \A c \in Callers :
        (Done(c) /\ FromOutside(sq[c].ray)) =>
            \A v \in OccupiedCells :
                IsFirstOnPath(sq[c].ray, v) =>
                    sq[c].ret /\ sq[c].out.hit /\ sq[c].out.voxel_id = GridByte(v)

\* C4: popcount(child_mask) is the number of node slots (internal node) or
\* of payload bytes (leaf) allocated for the node from child_ptr on, and all
\* of them lie inside node_pool and leaf_data.
C4_MaskPopcount ==
    Built =>
        \A i \in 1 .. Len(tree.node_pool) :
            LET n == tree.node_pool[i]
                pc == Cardinality(n.child_mask)
            IN  /\ pc = tree.alloc[i].count
                /\ pc > 0 => n.child_ptr = tree.alloc[i].first
                /\ n.is_leaf = 0 => n.child_ptr + pc <= Len(tree.node_pool)
                /\ n.is_leaf # 0 => n.child_ptr + pc <= Len(tree.leaf_data)

C4_Witness ==
    /\ Built
    /\ \E i \in 1 .. Len(tree.node_pool) :
           tree.node_pool[i].is_leaf = 0 /\ Cardinality(tree.node_pool[i].child_mask) = 2
    /\ \E i \in 1 .. Len(tree.node_pool) :
           tree.node_pool[i].is_leaf # 0 /\ tree.node_pool[i].child_ptr = 1

\* the voxel that contains the world position p
VoxelOf(p) ==
    <<clamp((p[1] - WorldMin(grid_size)) \div VoxelWorld, 0, grid_size - 1),
      clamp((p[2] - WorldMin(grid_size)) \div VoxelWorld, 0, grid_size - 1),
      clamp((p[3] - WorldMin(grid_size)) \div VoxelWorld, 0, grid_size - 1)>>
InsideVoxel(p, v) ==
    \A a \in 1 .. 3 : VoxelLo(v)[a] <= p[a] /\ p[a] <= VoxelHi(v)[a]

\* C6: a hit is reported only at a position inside an occupied voxel, with
\* that voxel's byte; a ray whose path crosses no occupied voxel has no hit.
C6_HitOnlyOccupied ==
    \A c \in Callers :
        Done(c) =>
            /\ sq[c].out.hit =>
                  /\ InsideVoxel(sq[c].out.point, VoxelOf(sq[c].out.point))
                  /\ GridByte(VoxelOf(sq[c].out.point)) # 0
                  /\ sq[c].out.voxel_id = GridByte(VoxelOf(sq[c].out.point))
                  /\ sq[c].out.point = add(sq[c].ray.origin, mul(sq[c].ray.dir, sq[c].out.t))
            /\ OnPath(sq[c].ray) = {} => (~sq[c].ret /\ ~sq[c].out.hit)

C6_Witness ==
    /\ Done(1) /\ sq[1].out.hit /\ sq[1].out.t > 0
    /\ grid_size = 16 /\ Cardinality(DOMAIN voxels) = 2
    /\ sq[1].out.voxel_id = 2

\* the scenario of the specification: 4x4x4, only (1,1,1) set, ray through
\* the centre of (2,2,2)
C6_Scenario ==
    /\ Done(1) /\ grid_size = 4 /\ OccupiedCells = {<<1, 1, 1>>}
    /\ sq[1].ray = MkRay(Outside(4, <<2, 2, 2>>, <<1, 0, 0>>), <<1, 0, 0>>)
    /\ ~sq[1].out.hit

\* C9: every call ends, after at most 512 iterations, in one of three ways:
\* hit (returns true, out.hit true), left the bounds (a ray that never
\* overlaps them included), or iteration cap; the last two return false with
\* out.hit false.
C9_Outcome ==
    \A c \in Callers :
        /\ sq[c].iter <= ITER_CAP
        /\ Done(c) =>
              \/ sq[c].how = "hit" /\ sq[c].ret /\ sq[c].out.hit
              \/ sq[c].how \in {"exit", "nooverlap"} /\ ~sq[c].ret /\ ~sq[c].out.hit
              \/ sq[c].how = "cap" /\ sq[c].iter = ITER_CAP /\ ~sq[c].ret /\ ~sq[c].out.hit

C9_Progress ==
    \A c \in Callers :
        (sq[c].pc = "march" /\ sq'[c] # sq[c]) =>
            \/ sq'[c].pc = "done"
            \/ sq'[c].pc = "march" /\ sq'[c].iter = sq[c].iter + 1 /\ sq'[c].iter < ITER_CAP

C9_Terminates == [](C9_Outcome) /\ [][C9_Progress]_vars

C9_Witness == Done(1) /\ sq[1].how = "exit" /\ sq[1].iter >= 3

\* ------------------------------------------------ what the triangles say
\* brute force: intersect_triangle on every triangle of the flat input list
RECURSIVE BruteForce(_, _, _, _)
BruteForce(items_, k, ray, rec) ==
    IF k > Len(items_) THEN rec
    ELSE BruteForce(items_, k + 1, ray, intersect_triangle(ray, items_[k].tri, items_[k].mat, rec).rec)

BvhBuilt == bvh.root # NULL
BvhDone(c) == bq[c].pc = "done" /\ BvhBuilt

\* C3: on a tree built from the items, bvh_intersect returns the hit flag and
\* the t of the brute-force test of the same ray against every input triangle.
C3_ClosestHit ==
    \A c \in Callers :
        BvhDone(c) =>
            LET bf == BruteForce(items, 1, bq[c].ray, HitRecord0)
            IN  /\ bq[c].ret = bf.hit
                /\ bq[c].rec.hit = bf.hit
                /\ bq[c].rec.t = bf.t

BoxContains(a, b) ==
    \A k \in 1 .. 3 : a.min[k] <= b.min[k] /\ b.max[k] <= a.max[k]

\* C5: every node's box has min <= max and contains the boxes of both
\* children (internal node) or of every owned triangle (leaf).
C5_BoundsContain ==
    BvhBuilt =>
        \A i \in 1 .. Len(bvh.heap) :
            LET n == bvh.heap[i]
            IN  /\ \A k \in 1 .. 3 : n.bounds.min[k] <= n.bounds.max[k]
                /\ n.count = 0 =>
                      /\ n.left # NULL /\ BoxContains(n.bounds, bvh.heap[n.left].bounds)
                      /\ n.right # NULL /\ BoxContains(n.bounds, bvh.heap[n.right].bounds)
                /\ n.count # 0 =>
                      \A j \in 1 .. n.count :
                          \A v \in {n.tris[j].v0, n.tris[j].v1, n.tris[j].v2} :
                              \A k \in 1 .. 3 : n.bounds.min[k] <= v[k] /\ v[k] <= n.bounds.max[k]

C5_Witness ==
    /\ BvhBuilt /\ Len(items) = 6
    /\ bvh.heap[bvh.root].count = 0
    /\ \E i \in 1 .. Len(bvh.heap) : bvh.heap[i].count >= 2

SeqMin(q) == CHOOSE m \in {q[i] : i \in 1 .. Len(q)} : \A i \in 1 .. Len(q) : m <= q[i]

\* C8: during bvh_intersect the record's t never increases; the record is
\* overwritten only by a triangle test, with EPSILON <= t < rec.t; after
\* every triangle test it holds the closest intersection accepted so far.
C8_Closest ==
    \A c \in Callers :
        bq[c].pc # "idle" =>
            /\ bq[c].acc = <<>> => bq[c].rec = HitRecord0
            /\ bq[c].acc # <<>> => (bq[c].rec.hit /\ bq[c].rec.t = SeqMin(bq[c].acc))

C8_Step ==
    \A c \in Callers :
        bq[c].pc \in {"loop", "tri"} =>
            /\ bq'[c].rec.t <= bq[c].rec.t
            /\ bq'[c].rec # bq[c].rec =>
                  /\ bq[c].pc = "tri"
                  /\ bq'[c].rec.hit
                  /\ EPSILON <= bq'[c].rec.t
                  /\ bq'[c].rec.t < bq[c].rec.t

C8_TNeverIncreases == [](C8_Closest) /\ [][C8_Step]_vars

\* the record was overwritten twice, and a later, farther intersection was
\* then rejected
C8_Witness ==
    /\ BvhDone(1) /\ Len(bq[1].acc) = 2 /\ Len(items) >= 3
    /\ bq[1].rec.t = SeqMin(bq[1].acc)
    /\ BruteForce(<<items[Len(items)]>>, 1, bq[1].ray, HitRecord0).t > bq[1].rec.t
    /\ BruteForce(<<items[Len(items)]>>, 1, bq[1].ray, HitRecord0).hit

\* C10: sp stays within 0 .. STACK_SIZE - 1; an internal node that passes
\* its box test while its children do not fit gets neither child pushed, and
\* the traversal goes on with the nodes still on the stack.
C10_SpInRange ==
    \A c \in Callers : Len(bq[c].stack) >= 0 /\ Len(bq[c].stack) <= STACK_SIZE - 1

C10_DropStep ==
    \A c \in Callers :
        LET q == bq[c]
            n == q.stack[Len(q.stack)]
            popped == SubSeq(q.stack, 1, Len(q.stack) - 1)
        IN  (/\ q.pc = "loop" /\ Len(q.stack) > 0 /\ n # NULL
             /\ Node(bvh, n).count = 0
             /\ box_hit(Node(bvh, n).bounds, q.ray, BOX_TMIN, q.rec.t)
             /\ Len(popped) + 2 >= STACK_SIZE)
            => (bq'[c].stack = popped /\ bq'[c].pc = "loop" /\ bq'[c].rec = q.rec)

C10_StackBounded == [](C10_SpInRange) /\ [][C10_DropStep]_vars

C10_Witness ==
    /\ bq[1].pc = "done" /\ bq[1].dropped /\ bq[1].ret
    /\ Len(bq[1].acc) = 1

\* ------------------------------------------------------------ queries alone
\* the whole of s64tree_intersect, run without interruption
RECURSIVE s64_run(_, _)
s64_run(t, s) == IF s.pc = "march" THEN s64_run(t, s64_step(t, s)) ELSE s
S64Alone(t, ray) == s64_run(t, s64_begin(t, ray))

\* the whole of bvh_intersect, run without interruption
RECURSIVE bvh_run(_, _)
bvh_run(b, q) ==
    IF q.pc = "loop" THEN bvh_run(b, bvh_loop(b, q))
    ELSE IF q.pc = "tri" THEN bvh_run(b, bvh_tri(b, q))
    ELSE q
BvhAlone(b, ray) == bvh_run(b, bvh_begin(b, ray, HitRecord0))

\* C7: queries never write to the tree they query, so every one of several
\* interleaved queries returns the flag and the hit record it returns when it
\* runs alone on the tree as it was built.
C7_SameAsAlone ==
    \A c \in Callers :
        /\ Done(c) =>
              LET a == S64Alone(s64tree_build(voxels, grid_size, Bounds6(grid_size)), sq[c].ray)
              IN  sq[c].ret = a.ret /\ sq[c].out = a.out
        /\ BvhDone(c) =>
              LET a == BvhAlone(bvh_build(items), bq[c].ray)
              IN  bq[c].ret = a.ret /\ bq[c].rec = a.rec

C7_TreeUntouched ==
    /\ Built => tree' = tree
    /\ BvhBuilt => bvh' = bvh

RECURSIVE HeapDepth(_, _)
HeapDepth(heap, p) ==
    IF heap[p].count # 0 THEN 0
    ELSE 1 + Max2(HeapDepth(heap, heap[p].left), HeapDepth(heap, heap[p].right))
BvhDepth(b) == IF b.deep > 0 THEN b.deep ELSE HeapDepth(b.heap, b.root)

\* C11: when STACK_SIZE is at least twice the maximum depth of the tree, no
\* subtree is dropped: every internal node that is popped and passes its box
\* test gets both children pushed.
C11_NoDropFlag ==
    \A c \in Callers :
        (BvhBuilt /\ 2 * BvhDepth(bvh) <= STACK_SIZE) => ~bq[c].dropped

C11_PushStep ==
    \A c \in Callers :
        LET q == bq[c]
            n == q.stack[Len(q.stack)]
            popped == SubSeq(q.stack, 1, Len(q.stack) - 1)
        IN  (/\ 2 * BvhDepth(bvh) <= STACK_SIZE
             /\ q.pc = "loop" /\ Len(q.stack) > 0 /\ n # NULL
             /\ Node(bvh, n).count = 0
             /\ box_hit(Node(bvh, n).bounds, q.ray, BOX_TMIN, q.rec.t))
            => bq'[c].stack = popped \o <<Node(bvh, n).left, Node(bvh, n).right>>

C11_NoDropWhenDeepEnough == [](C11_NoDropFlag) /\ [][C11_PushStep]_vars

\* the deepest node of a tree whose depth is exactly half the capacity has
\* been pushed
C11_Witness ==
    /\ 2 * BvhDepth(bvh) = STACK_SIZE
    /\ bq[1].pc = "loop" /\ Len(bq[1].stack) = BvhDepth(bvh) + 1
    /\ ~bq[1].dropped

\* --------------------------------------------------------- index safety
\* C12: whatever node_pool and leaf_data hold, the call reads them only at
\* indices below their sizes; a computed index that is out of range ends the
\* call with false and out.hit false, and with an empty node_pool the call
\* returns false without reading node 0.
C12_ReadsInRange ==
    \A c \in Callers :
        /\ \A i \in sq[c].nread : i < Len(tree.node_pool)
        /\ \A i \in sq[c].lread : i < Len(tree.leaf_data)
        /\ sq[c].how = "oob" => (sq[c].pc = "done" /\ ~sq[c].ret /\ ~sq[c].out.hit)
        /\ (sq[c].pc # "idle" /\ tree.node_pool = <<>>) =>
               /\ sq[c].pc = "done" /\ sq[c].how = "empty"
               /\ sq[c].nread = {} /\ ~sq[c].ret /\ ~sq[c].out.hit

\* a payload index past the end of leaf_data, found after a descent that read
\* two nodes
C12_Witness ==
    /\ sq[1].pc = "done" /\ sq[1].how = "oob"
    /\ Cardinality(sq[1].nread) >= 2
    /\ Len(tree.leaf_data) < 2

\* ------------------------------------------------------------------ the root
\* the mask of the node that stands for the whole grid: the occupied voxels
\* of a 4x4x4 grid, the non-empty quarter blocks of a larger one
WholeGridMask ==
    LET q == grid_size \div 4
    IN  {s64_bit_index(v[1] \div q, v[2] \div q, v[3] \div q) : v \in OccupiedCells}

\* C13: node 0 of a built tree is the root, the node of the whole grid; the
\* tree of an all-zero grid is the single node {1, 0, 0} with no leaf data,
\* and every query on it reports no hit.
C13_RootAndEmptyGrid ==
    Built =>
        /\ tree.node_pool[1].child_mask = WholeGridMask
        /\ tree.node_pool[1].is_leaf # 0 <=> (grid_size = 4 \/ OccupiedCells = {})
        /\ OccupiedCells = {} =>
              /\ tree.node_pool = <<[is_leaf |-> 1, child_ptr |-> 0, child_mask |-> {}]>>
              /\ tree.leaf_data = <<>>
              /\ \A c \in Callers : Done(c) => (~sq[c].ret /\ ~sq[c].out.hit)

\* a ray through the bounds of the tree of an empty 16x16x16 grid has left
\* them without a hit
C13_Witness ==
    /\ Done(1) /\ OccupiedCells = {} /\ grid_size = 16
    /\ sq[1].how = "exit" /\ ~sq[1].ret

\* ------------------------------------------------------------ row partition
RowsOf(job) == {y \in 0 .. frame.bHeight - 1 : job.y0 <= y /\ y < job.y1}

\* C14: the row ranges of the tasks are pairwise disjoint and, once all tasks
\* are started, cover every row exactly once; no pixel is written by two
\* tasks; render_frame has returned, and the frame is presented, only when
\* every task has finished and so every pixel has been written.
C14_RowsPartitioned ==
    /\ \A j, k \in 1 .. Len(frame.jobs) :
           j # k => RowsOf(frame.jobs[j]) \cap RowsOf(frame.jobs[k]) = {}
    /\ frame.pc \in {"wait", "returned", "presented"} =>
           /\ Len(frame.jobs) = frame.num_threads
           /\ \A y \in 0 .. frame.bHeight - 1 :
                  Cardinality({j \in 1 .. Len(frame.jobs) : y \in RowsOf(frame.jobs[j])}) = 1
    /\ \A p \in DOMAIN frame.buffer : Cardinality(frame.buffer[p]) <= 1
    /\ frame.pc \in {"returned", "presented"} =>
           /\ \A j \in 1 .. Len(frame.jobs) : frame.jobs[j].y = frame.jobs[j].y1
           /\ \A p \in DOMAIN frame.buffer : Cardinality(frame.buffer[p]) = 1

\* a frame rendered by more tasks than there are rows has been presented
C14_Witness ==
    /\ frame.pc = "presented"
    /\ frame.num_threads > frame.bHeight /\ frame.bHeight >= 2
    /\ \E j \in 1 .. Len(frame.jobs) : frame.jobs[j].y0 = frame.jobs[j].y1

\* ------------------------------------------------------------------ bvh_free
\* C15: bvh_free on the root of a built tree frees every node and every
\* leaf's triangle and material array exactly once, frees nothing build did
\* not allocate and leaves nothing of the tree allocated; bvh_free(NULL)
\* does nothing.
C15_Freed ==
    /\ \A j, k \in DOMAIN mem.freed : j # k => mem.freed[j] # mem.freed[k]
    /\ {mem.freed[k] : k \in DOMAIN mem.freed} \subseteq build_mallocs(bvh.heap)
    /\ mem.freed # <<>> =>
           /\ {mem.freed[k] : k \in DOMAIN mem.freed} = build_mallocs(bvh.heap)
           /\ mem.live = {}
    /\ (mem.calls > 0 /\ mem.freed = <<>>) => mem.live = build_mallocs(bvh.heap)

C15_FreeStep ==
    mem'.calls # mem.calls =>
        IF bvh.root = NULL THEN mem'.live = mem.live /\ mem'.freed = mem.freed
        ELSE mem'.live = {} /\ Len(mem'.freed) = Cardinality(mem.live)

C15_FreeExactlyOnce == [](C15_Freed) /\ [][C15_FreeStep]_vars

\* a tree with an internal root and several leaves has been freed
C15_Witness ==
    /\ mem.calls = 1 /\ mem.live = {}
    /\ Len(items) >= 5 /\ Len(mem.freed) >= 9

\* --------------------------------------------------------------- node shape
\* the number of triangles stored below node p
RECURSIVE SubtreeCount(_, _)
SubtreeCount(heap, p) ==
    IF p = NULL THEN 0
    ELSE IF heap[p].count # 0 THEN heap[p].count
    ELSE SubtreeCount(heap, heap[p].left) + SubtreeCount(heap, heap[p].right)

\* C16: a node of a built tree is a leaf exactly when it holds at most
\* LEAF_SIZE items; a leaf has 1 <= count <= LEAF_SIZE, triangle and material
\* arrays of that length and NULL children; an internal node has count 0,
\* NULL arrays and two non-NULL children.
C16_NodeShape ==
    BvhBuilt =>
        \A p \in DOMAIN bvh.heap :
            LET n == bvh.heap[p]
            IN  /\ n.count # 0 <=> SubtreeCount(bvh.heap, p) <= LEAF_SIZE
                /\ n.count # 0 =>
                      /\ 1 <= n.count /\ n.count <= LEAF_SIZE
                      /\ Len(n.tris) = n.count /\ Len(n.mats) = n.count
                      /\ n.left = NULL /\ n.right = NULL
                /\ n.count = 0 =>
                      /\ n.tris = <<>> /\ n.mats = <<>>
                      /\ n.left # NULL /\ n.right # NULL /\ n.left # n.right
                      /\ n.left \in DOMAIN bvh.heap /\ n.right \in DOMAIN bvh.heap

\* a tree with an internal root, a full leaf and a leaf of one triangle
C16_Witness ==
    /\ BvhBuilt /\ bvh.heap[bvh.root].count = 0
    /\ \E p \in DOMAIN bvh.heap : bvh.heap[p].count = LEAF_SIZE
    /\ \E p \in DOMAIN bvh.heap : bvh.heap[p].count = 1

\* ----------------------------------------------------------------- the split
MinOf(S) == CHOOSE m \in S : \A x \in S : m <= x
MaxOf(S) == CHOOSE m \in S : \A x \in S : m >= x

\* the (triangle, material) pairs stored below node p
RECURSIVE SubtreePairs(_, _)
SubtreePairs(heap, p) ==
    IF heap[p].count # 0
    THEN {<<heap[p].tris[k], heap[p].mats[k]>> : k \in 1 .. heap[p].count}
    ELSE SubtreePairs(heap, heap[p].left) \cup SubtreePairs(heap, heap[p].right)

\* the box of a set of pairs, and its surface area
PairsArea(P) ==
    LET V == UNION {{pr[1].v0, pr[1].v1, pr[1].v2} : pr \in P}
        ext(a) == MaxOf({v[a] : v \in V}) - MinOf({v[a] : v \in V})
    IN  2 * (ext(1) * ext(2) + ext(2) * ext(3) + ext(3) * ext(1))

\* the first s pairs of P in the order of their centroids on the axis
FirstByCentroid(P, axis, s) ==
    LET c(pr) == pr[1].v0[axis] + pr[1].v1[axis] + pr[1].v2[axis]
    IN  {pr \in P : Cardinality({o \in P : c(o) < c(pr)}) < s}

SplitCost(P, axis, s) ==
    PairsArea(FirstByCentroid(P, axis, s)) * s
    + PairsArea(P \ FirstByCentroid(P, axis, s)) * (Cardinality(P) - s)

SplitCandidates(n) ==
    LET nb == IF n < 16 THEN n ELSE 16 IN {(n * i) \div nb : i \in 1 .. nb - 1}

\* the first candidate of minimum cost; the midpoint when no cost is below
\* the sentinel
ExpectedSplit(P, axis) ==
    LET n == Cardinality(P)
        C == {s \in SplitCandidates(n) : SplitCost(P, axis, s) < Huge}
    IN  IF C = {} THEN n \div 2
        ELSE CHOOSE s \in C :
                 /\ \A o \in C : SplitCost(P, axis, s) <= SplitCost(P, axis, o)
                 /\ \A o \in C : o < s => SplitCost(P, axis, o) > SplitCost(P, axis, s)

\* C17: an internal node splits its items, sorted by centroid on the axis of
\* the largest extent, at the first candidate s = (n*i)/num_buckets of minimum
\* cost area(left) * s + area(right) * (n - s).
C17_SahSplit ==
    BvhBuilt =>
        \A p \in DOMAIN bvh.heap :
            bvh.heap[p].count = 0 =>
                LET P == SubtreePairs(bvh.heap, p)
                    axis == split_axis(bvh.heap[p].bounds)
                    s == ExpectedSplit(P, axis)
                IN  /\ Cardinality(P) > LEAF_SIZE
                    /\ SubtreePairs(bvh.heap, bvh.heap[p].left) = FirstByCentroid(P, axis, s)
                    /\ SubtreePairs(bvh.heap, bvh.heap[p].right) = P \ FirstByCentroid(P, axis, s)

\* 17 items or more, so that 16 buckets are used, split away from the midpoint
C17_Witness ==
    /\ BvhBuilt /\ Len(items) >= 17
    /\ SubtreeCount(bvh.heap, bvh.heap[bvh.root].left) # Len(items) \div 2

\* ---------------------------------------------------------- compact indexing
\* the region of size^3 voxels at (x0, y0, z0) holds an occupied voxel
RegionOccupied(x0, y0, z0, size) ==
    \E v \in OccupiedCells :
        /\ x0 <= v[1] /\ v[1] < x0 + size
        /\ y0 <= v[2] /\ v[2] < y0 + size
        /\ z0 <= v[3] /\ v[3] < z0 + size

\* the number of set bits of mask below bit i
BitsBelow(mask, i) == Cardinality({a \in mask : a < i})

\* node idx is the subtree of the region: its mask has bit i set exactly for
\* the occupied sub-cells x = i mod 4, z = (i div 4) mod 4, y = i div 16, and
\* the entry at child_ptr + BitsBelow(mask, i) is that sub-cell's subtree or byte
RECURSIVE SubtreeOf(_, _, _, _, _)
SubtreeOf(idx, x0, y0, z0, size) ==
    /\ idx < Len(tree.node_pool)
    /\ LET n == At(tree.node_pool, idx)
           q == size \div 4
           ox(i) == x0 + (i % 4) * q
           oz(i) == z0 + ((i \div 4) % 4) * q
           oy(i) == y0 + (i \div 16) * q
       IN  /\ n.child_mask = {i \in 0 .. 63 : RegionOccupied(ox(i), oy(i), oz(i), q)}
           /\ IF size = 4
              THEN /\ n.is_leaf # 0
                   /\ \A i \in n.child_mask :
                          /\ n.child_ptr + BitsBelow(n.child_mask, i) < Len(tree.leaf_data)
                          /\ At(tree.leaf_data, n.child_ptr + BitsBelow(n.child_mask, i))
                                 = GridByte(<<ox(i), oy(i), oz(i)>>)
              ELSE /\ n.is_leaf = 0
                   /\ \A i \in n.child_mask :
                          SubtreeOf(n.child_ptr + BitsBelow(n.child_mask, i),
                                    ox(i), oy(i), oz(i), q)

\* C18: in a built tree the entry at child_ptr + popcount(mask below bit i) is
\* the subtree of sub-cell i (internal node) or the grid byte of voxel i
\* (leaf); the lookup of s64tree_intersect so returns the byte of the voxel
\* it has located.
\* (the tree is looked at when it has just been built or a query has
\* returned: queries do not change it)
C18_CompactIndex ==
    (Built /\ OccupiedCells # {}) =>
        /\ Quiet => SubtreeOf(0, 0, 0, 0, grid_size)
        /\ \A c \in Callers :
               (Done(c) /\ sq[c].out.hit) =>
                   sq[c].out.voxel_id = GridByte(VoxelOf(sq[c].out.point))

\* two voxels of one leaf with different bytes, below an internal root; the
\* second byte of the leaf has been returned by a query
C18_Witness ==
    /\ Built /\ grid_size = 16
    /\ \E i \in 1 .. Len(tree.node_pool) :
           tree.node_pool[i].is_leaf # 0 /\ Cardinality(tree.node_pool[i].child_mask) = 2
    /\ Len(tree.leaf_data) = 2 /\ tree.leaf_data[1] # tree.leaf_data[2]
    /\ Done(1) /\ sq[1].out.hit /\ sq[1].out.voxel_id = tree.leaf_data[2]

\* ------------------------------------------------------------- the march
\* C19: every march step increases tcur, by more than the 1e-4 epsilon (the
\* step distance is positive, or replaced by 1e-4); the loop goes on only
\* while the new tcur is at most t1 and ends without a hit when it exceeds
\* t1; a reported hit has max(t0, 0) <= t <= t1.
C19_HitInRange ==
    \A c \in Callers :
        (Done(c) /\ sq[c].out.hit) =>
            LET bb == s64_aabb_hit(sq[c].ray.origin, sq[c].ray.inv_dir, tree.bmin, tree.bmax)
            IN  Max2(bb.t0, 0) <= sq[c].out.t /\ sq[c].out.t <= bb.t1

C19_MarchStep ==
    \A c \in Callers :
        (sq[c].pc = "march" /\ sq'[c] # sq[c] /\ sq'[c].how # "hit") =>
            /\ sq'[c].tcur > sq[c].tcur + MARCH_EPS
            /\ sq'[c].tcur > sq[c].t1 =>
                   (sq'[c].pc = "done" /\ ~sq'[c].ret /\ ~sq'[c].out.hit)
            /\ sq'[c].tcur <= sq[c].t1 => sq'[c].pc = "march"

C19_TcurIncreases == [](C19_HitInRange) /\ [][C19_MarchStep]_vars

\* a first step from t = 0 whose distance was not positive and was replaced
\* by 1e-4: the ray starts on the face it is heading for
C19_Witness ==
    /\ Built /\ sq[1].ray = FaceRay(grid_size) /\ grid_size = 16
    /\ sq[1].pc = "march" /\ sq[1].iter = 1 /\ sq[1].tcur = 2 * MARCH_EPS

\* ------------------------------------------------------- nothing lost
\* the leaf slots <<node, k>> that hold the pair pr
SlotsOf(heap, pr) ==
    {<<p, k>> \in (DOMAIN heap) \X (1 .. LEAF_SIZE) :
        /\ k <= heap[p].count
        /\ <<heap[p].tris[k], heap[p].mats[k]>> = pr}

\* C20: an internal node of n items gives 1 .. n - 1 of them to its left
\* child and the rest to its right child; the tree has at most 2n - 1 nodes;
\* every input (triangle, material) pair is stored in exactly one leaf slot
\* and nothing else is stored.
C20_SplitProperAndComplete ==
    BvhBuilt =>
        /\ \A p \in DOMAIN bvh.heap :
               bvh.heap[p].count = 0 =>
                   LET n == SubtreeCount(bvh.heap, p)
                       l == SubtreeCount(bvh.heap, bvh.heap[p].left)
                       r == SubtreeCount(bvh.heap, bvh.heap[p].right)
                   IN  1 <= l /\ l <= n - 1 /\ r = n - l /\ n > LEAF_SIZE
        /\ Len(bvh.heap) <= 2 * Len(items) - 1
        /\ SubtreeCount(bvh.heap, bvh.root) = Len(items)
        /\ \A i \in DOMAIN items :
               Cardinality(SlotsOf(bvh.heap, <<items[i].tri, items[i].mat>>)) = 1
        /\ SubtreePairs(bvh.heap, bvh.root) =
               {<<items[i].tri, items[i].mat>> : i \in DOMAIN items}

\* a tree of several levels built from 17 or more items given in reverse order
C20_Witness ==
    /\ BvhBuilt /\ Len(items) >= 17 /\ items[1].mat > items[2].mat
    /\ Len(bvh.heap) >= 9

\* ------------------------------------------------------- the tree's shape
\* k with N = 4^k
LogFour(N) == CHOOSE k \in 1 .. MaxK + 1 : Pow4(k) = N

\* the internal nodes whose child range holds node index i
ParentsOf(np, i) ==
    {p \in 0 .. Len(np) - 1 :
        /\ At(np, p).is_leaf = 0
        /\ At(np, p).child_ptr <= i
        /\ i < At(np, p).child_ptr + Cardinality(At(np, p).child_mask)}

\* the depth of node i; the root has depth 0
RECURSIVE NodeDepth(_, _)
NodeDepth(np, i) ==
    IF i = 0 THEN 0
    ELSE IF ParentsOf(np, i) = {} THEN 0 - Len(np)
    ELSE 1 + NodeDepth(np, CHOOSE p \in ParentsOf(np, i) : TRUE)

\* the steps of the descent loop that ended with d: one per node read, and
\* one more for the step that broke out or returned
DescentSteps(d) == Cardinality(d.nread) + (IF d.missing \/ d.oob THEN 1 ELSE 0)

\* the descent of the iteration that a marching query is about to run
NextDescent(c) ==
    s64_descend(tree, s64_node(tree, 0), tree.bmin, tree.bmax[1] - tree.bmin[1], sq[c].pos)

\* what C21 says of every node but the depth of the leaves, and of the descent
C21_Shape ==
    /\ (Built /\ Quiet) =>
           \A i \in 0 .. Len(tree.node_pool) - 1 :
               LET n == At(tree.node_pool, i)
               IN  /\ n.is_leaf = 0 => n.child_ptr > i
                   /\ i # 0 => Cardinality(ParentsOf(tree.node_pool, i)) = 1
                   /\ i # 0 => n.child_mask # {}
    /\ \A c \in Callers :
           sq[c].pc = "march" => DescentSteps(NextDescent(c)) <= LogFour(grid_size) - 1

\* C21 (as amended): in a built tree every internal node's child_ptr is
\* greater than its own index, every non-root node lies in the child range
\* of exactly one internal node and has a non-zero mask, and every leaf lies
\* at depth k - 1, except the root of an all-empty grid, which is a leaf at
\* depth 0; the descent loop ends after at most k - 1 steps.
C21_TreeShape ==
    /\ C21_Shape
    /\ (Built /\ Quiet) =>
           \A i \in 0 .. Len(tree.node_pool) - 1 :
               At(tree.node_pool, i).is_leaf # 0 =>
                   \/ NodeDepth(tree.node_pool, i) = LogFour(grid_size) - 1
                   \/ i = 0 /\ DOMAIN voxels = {} /\ Len(tree.node_pool) = 1

\* C21 (as stated): the same, with every leaf at depth k - 1
C21_AllLeavesAtDepth ==
    /\ C21_Shape
    /\ (Built /\ Quiet) =>
           \A i \in 0 .. Len(tree.node_pool) - 1 :
               At(tree.node_pool, i).is_leaf # 0 =>
                   NodeDepth(tree.node_pool, i) = LogFour(grid_size) - 1

\* a query that has descended below the root of a tree of two leaves or
\* more is about to descend again
C21_Witness ==
    /\ Built /\ grid_size = 16 /\ Len(tree.node_pool) >= 3
    /\ sq[1].pc = "march" /\ \E i \in sq[1].nread : i > 0
    /\ DescentSteps(NextDescent(1)) = 1

\* ------------------------------------------------------ the caller's record
\* C22: bvh_intersect returns true exactly when a triangle was accepted
\* during the call, which is exactly when the record was overwritten; when
\* it returns false, also for a NULL root, the record is as it was passed in.
C22_Result ==
    \A c \in Callers :
        bq[c].pc = "done" =>
            /\ bq[c].ret <=> bq[c].acc # <<>>
            /\ bq[c].ret <=> bq[c].rec # bq[c].rec0
            /\ ~bq[c].ret =>
                   /\ bq[c].rec = bq[c].rec0
                   /\ bq[c].rec.hit = bq[c].rec0.hit /\ bq[c].rec.t = bq[c].rec0.t

\* a step overwrites the record exactly when it accepts a triangle
C22_Step ==
    \A c \in Callers :
        bq[c].pc \in {"loop", "tri"} =>
            (bq'[c].rec # bq[c].rec <=> Len(bq'[c].acc) = Len(bq[c].acc) + 1)

C22_ReturnsTrueIffOverwritten == [](C22_Result) /\ [][C22_Step]_vars

\* a query on a built tree returned false and left the caller's earlier hit
\* in place, although the ray meets a triangle farther away
C22_Witness ==
    /\ BvhDone(1) /\ ~bq[1].ret
    /\ bq[1].rec0.hit /\ bq[1].rec0.t = 50 /\ bq[1].rec = bq[1].rec0
    /\ BruteForce(items, 1, bq[1].ray, HitRecord0).hit

\* ------------------------------------------------- internal-level misses
\* C23, the cell: when the descent of the coming iteration stops at an unset
\* bit of an internal node, the cell the march steps across is the sub-cell
\* of that bit, a quarter of the node's size per axis, it holds the ray
\* position, and the grid has no occupied voxel in it.
C23_MissCell ==
    \A c \in Callers :
        (sq[c].pc = "march" /\ NextDescent(c).missing) =>
            LET d == NextDescent(c)
                cell == s64_march_cell(d)
                cs == cell.cell_size
                rel == sub(cell.cell_min, tree.bmin)
                bit == s64_bit_index((rel[1] % (4 * cs)) \div cs, (rel[2] % (4 * cs)) \div cs,
                                     (rel[3] % (4 * cs)) \div cs)
            IN  /\ d.node.is_leaf = 0
                /\ cs * Pow4(Cardinality(d.nread) + 1) = grid_size * VoxelWorld
                /\ \A a \in 1 .. 3 :
                       /\ rel[a] >= 0 /\ rel[a] % cs = 0
                       /\ rel[a] + cs <= grid_size * VoxelWorld
                       /\ cell.cell_min[a] <= sq[c].pos[a]
                       /\ sq[c].pos[a] <= cell.cell_min[a] + cs
                /\ bit \notin d.node.child_mask
                /\ ~RegionOccupied(rel[1] \div VoxelWorld, rel[2] \div VoxelWorld,
                                   rel[3] \div VoxelWorld, cs \div VoxelWorld)

\* C23, the step: a march step taken after such a miss passes over no
\* occupied voxel.
C23_MissStep ==
    \A c \in Callers :
        (sq[c].pc = "march" /\ NextDescent(c).missing) =>
            /\ sq'[c].tcur > sq[c].tcur
            /\ ~\E v \in OccupiedCells :
                   CrossedBetween(sq[c].ray, v, sq[c].tcur, sq'[c].tcur)

C23_MissStepsOverNothing == [](C23_MissCell) /\ [][C23_MissStep]_vars

\* the coming iteration misses at the root while an occupied voxel lies
\* farther along the ray
C23_Witness ==
    /\ Built /\ sq[1].pc = "march" /\ NextDescent(1).missing
    /\ \E v \in OnPath(sq[1].ray) : sq[1].tcur < VoxelSpan(sq[1].ray, v).a
====
